---- MODULE Spec2Model ----
(***************************************************************************)
(* Model of ElectronPhononCoupling/core/qptanalyzer.py: the QptAnalyzer    *)
(* class, which computes one q-point's contribution to the electron-phonon *)
(* self-energy.                                                            *)
(*                                                                         *)
(* Numbers.  numpy's complex floating point numbers are modelled as exact  *)
(* complex rationals <<a, b, d>> standing for (a + b*i)/d with d > 0 and   *)
(* gcd(a, b, d) = 1.  Floating point rounding is not modelled.             *)
(*                                                                         *)
(* Arrays.  A numpy array is a record [shape |-> <<n1, ..., nr>>,          *)
(* data |-> f] where f maps every index tuple <<i1, ..., ir>> with         *)
(* 1 <= ij <= nj to a number.  Indices are 1-based here, 0-based in the    *)
(* source.                                                                 *)
(***************************************************************************)
EXTENDS Integers, Sequences, FiniteSets, TLC

VARIABLES
    \* ---- the QptAnalyzer instance (self.*) ----
    ddb,            \* DdbFile: natom, nmode, is_gamma, omega, displacements
    eigq,           \* EigFile at k+q: EIG
    eig0,           \* EigFile at k:   EIG
    eigr2d,         \* Eigr2dFile: fname, nkpt, nband, occ, EIG2D
    eigr2d0,        \* Eigr2dFile at q=0
    eigi2d,         \* Eigr2dFile with the imaginary part (broadening)
    fan,            \* FanFile: fname, nkpt, nband, occ, FAN
    fan0,           \* FanFile at q=0
    gkk,            \* GkkFile: fname, nkpt, nband, occ, gkk squared
    gkk0,           \* GkkFile at q=0
    wtq, smearing, temperatures, omegase, mu,
    zpr, zpb, tdr, tdb, sigma,      \* the stored results
    \* ---- the observation of the last method call ----
    call,           \* [name, ok, err, ret, trace] of the last call
    prev,           \* the same of the call before it
    ncalls,         \* number of calls made so far
    \* ---- the pure functions' test bench ----
    arr,            \* input array of reduce_array
    flags,          \* <<mode, temperature, omega>> of the first reduction
    red,            \* result of reduce_array(arr, flags)
    flags2,         \* flags of a second reduction applied to red
    red2,           \* result of reduce_array(red, flags2)
    occ_out,        \* result of get_occ_nospin
    got             \* the accessors called so far, each with what it gave

selfvars == <<ddb, eigq, eig0, eigr2d, eigr2d0, eigi2d, fan, fan0, gkk, gkk0,
              wtq, smearing, temperatures, omegase, mu>>
resvars  == <<zpr, zpb, tdr, tdb, sigma>>
callvars == <<call, prev, ncalls>>
benchvars == <<arr, flags, red, flags2, red2, occ_out, got>>
vars == <<selfvars, resvars, callvars, benchvars>>

None == [none |-> TRUE]

\* ------------------------------------------------------------------ bounds

NKpt == 1           \* number of k-points of the files
NBand == 2          \* number of bands of the files
NAtom == 1          \* number of atoms (nmode = 3 * natom)
MaxNTemp == 2       \* longest list of temperatures
MaxNOmega == 2      \* longest frequency mesh omegase
MaxCalls == 2       \* number of method calls made on one instance

\* ---------------------------------------------------------- exact numbers

RECURSIVE Gcd(_, _)
Gcd(a, b) == IF b = 0 THEN a ELSE Gcd(b, a % b)

Abs(a) == IF a < 0 THEN -a ELSE a

\* (a + b i)/d in lowest terms with a positive denominator
CNorm(a, b, d) ==
    LET lowest(s, g) == <<(s * a) \div g, (s * b) \div g, (s * d) \div g>>
    IN  lowest(IF d < 0 THEN -1 ELSE 1, Gcd(Gcd(Abs(a), Abs(b)), Abs(d)))

CInt(n) == <<n, 0, 1>>
CZero == CInt(0)
COne == CInt(1)
CRat(n, d) == CNorm(n, 0, d)

CAdd(x, y) ==
    LET over(p, q) == CNorm(x[1] * p + y[1] * q, x[2] * p + y[2] * q, x[3] * p)
        common(g) == over(y[3] \div g, x[3] \div g)
    IN  common(Gcd(x[3], y[3]))
CNeg(x) == <<-x[1], -x[2], x[3]>>
CSub(x, y) == CAdd(x, CNeg(y))
CMul(x, y) == CNorm(x[1] * y[1] - x[2] * y[2], x[1] * y[2] + x[2] * y[1], x[3] * y[3])
\* 1.0 / x   (x # 0)
CInv(x) == CNorm(x[3] * x[1], -(x[3] * x[2]), x[1] * x[1] + x[2] * x[2])
CDiv(x, y) == CMul(x, CInv(y))
\* x.real and x.imag
CReal(x) == CNorm(x[1], 0, x[3])
CImag(x) == CNorm(x[2], 0, x[3])
\* x * 1j
CTimesI(x) == <<-x[2], x[1], x[3]>>
IsReal(x) == x[2] = 0

\* sum of the second components of a set of <<key, number>> pairs
RECURSIVE SumPairs(_)
SumPairs(S) ==
    IF S = {} THEN CZero
    ELSE LET x == CHOOSE x \in S : TRUE IN CAdd(x[2], SumPairs(S \ {x}))
\* sum of F(x) over the x in S
SumOver(S, F(_)) == SumPairs({<<x, F(x)>> : x \in S})

\* sum of F(1), ..., F(n)
RECURSIVE SumSeq(_)
SumSeq(s) == IF Len(s) = 0 THEN CZero ELSE CAdd(SumSeq(SubSeq(s, 1, Len(s) - 1)), s[Len(s)])
SumN(n, F(_)) == SumSeq([i \in 1..n |-> F(i)])

\* ------------------------------------------------------------------ arrays

\* the index tuples of an array of the given shape
RECURSIVE Idx(_)
Idx(shape) ==
    IF Len(shape) = 0 THEN {<<>>}
    ELSE LET n == Len(shape)
         IN  {Append(p, i) : p \in Idx(SubSeq(shape, 1, n - 1)), i \in 1..shape[n]}

\* forces the evaluation of a function defined by a rule
Eval(f) == f @@ <<>>

\* the array of the given shape whose entry at ix is F(ix)
MkArr(shape, F(_)) == [shape |-> shape, data |-> Eval([ix \in Idx(shape) |-> F(ix)])]

IsArr(a) == DOMAIN a = {"shape", "data"}

\* a raised exception, with the engine calls made before it was raised
Raise(kind, trace) == [err |-> kind, trace |-> trace]
Err(kind) == Raise(kind, <<>>)
IsErr(a) == "err" \in DOMAIN a
\* a scalar return value
Ret(v) == [val |-> v]

\* zeros(shape), ones(shape)
zeros(shape) == MkArr(shape, LAMBDA ix : CZero)
ones(shape) == MkArr(shape, LAMBDA ix : COne)

\* elementwise operations on arrays of one shape
ArrAdd(a, b) == MkArr(a.shape, LAMBDA ix : CAdd(a.data[ix], b.data[ix]))
ArrSub(a, b) == MkArr(a.shape, LAMBDA ix : CSub(a.data[ix], b.data[ix]))
ArrScale(c, a) == MkArr(a.shape, LAMBDA ix : CMul(c, a.data[ix]))
ArrReal(a) == MkArr(a.shape, LAMBDA ix : CReal(a.data[ix]))

\* mutant: the axes are left in the order of the computation
Permute_none(a, perm) == a

\* einsum with a permutation only: output axis j is input axis perm[j]
Permute(a, perm) ==
    LET r == Len(perm)
        inv(ix) == [j \in 1..r |-> ix[CHOOSE p \in 1..r : perm[p] = j]]
    IN  MkArr([j \in 1..r |-> a.shape[perm[j]]], LAMBDA ix : a.data[inv(ix)])

\* ------------------------------------------------ the instance's accessors

\* a file object: one whose filename is not set has not been read; it holds
\* no array, and the first use of one of its arrays fails ("NoData")
Unread == [fname |-> FALSE]

\* QptAnalyzer.nkpt
nkpt ==
    IF eigr2d.fname THEN Ret(eigr2d.nkpt)
    ELSE IF fan.fname THEN Ret(fan.nkpt)
    ELSE IF gkk.fname THEN Ret(gkk.nkpt)
    ELSE Err("Exception")

\* mutant: nband looks at the fan file before the eigr2d file
nband_fan_first ==
    IF fan.fname THEN Ret(fan.nband)
    ELSE IF eigr2d.fname THEN Ret(eigr2d.nband)
    ELSE IF gkk.fname THEN Ret(gkk.nband)
    ELSE Err("Exception")

\* QptAnalyzer.nband
nband ==
    IF eigr2d.fname THEN Ret(eigr2d.nband)
    ELSE IF fan.fname THEN Ret(fan.nband)
    ELSE IF gkk.fname THEN Ret(gkk.nband)
    ELSE Err("Exception")

natom == ddb.natom
nmode == ddb.nmode
is_gamma == ddb.is_gamma
nomegase == Len(omegase)
ntemp == Len(temperatures)

use_gkk == gkk.fname /\ gkk0.fname

has_active == (fan.fname /\ fan0.fname) \/ use_gkk

\* occ[0,0,:] of a file's occupations occ[spin,kpt,band]
occ_00(f) == MkArr(<<f.nband>>, LAMBDA ix : f.occ.data[<<1, 1, ix[1]>>])

\* mutant: the occupations are halved only when all of them are 2
halve_if_all_2(occ) ==
    IF \A ix \in Idx(occ.shape) : occ.data[ix] = CInt(2)
    THEN ArrScale(CRat(1, 2), occ) ELSE occ

\* mutant: the occupations are never halved
halve_never(occ) == occ

\* if any(occ == 2.0): occ = occ / 2.0
halve_if_any_2(occ) ==
    IF \E ix \in Idx(occ.shape) : occ.data[ix] = CInt(2)
    THEN ArrScale(CRat(1, 2), occ) ELSE occ

\* QptAnalyzer.get_occ_nospin
get_occ_nospin ==
    IF eigr2d.fname THEN halve_if_any_2(occ_00(eigr2d))
    ELSE IF fan.fname THEN halve_if_any_2(occ_00(fan))
    ELSE IF gkk.fname THEN halve_if_any_2(occ_00(gkk))
    ELSE Err("Exception")

\* self.eigq.EIG[0,k,n].real and self.eig0.EIG[0,k,n].real
Eq(k, n) == CReal(eigq.EIG.data[<<1, k, n>>])
E0(k, n) == CReal(eig0.EIG.data[<<1, k, n>>])

\* mutant: the eigenvalue of the band that stops the scan is returned
get_max_val_at_break ==
    LET first(low, N) == IF low = {} THEN N ELSE CHOOSE n \in low : \A j \in low : n <= j
        val(occ0) ==
            IF IsErr(occ0) THEN occ0
            ELSE Ret(Eq(1, first({n \in 1..occ0.shape[1] :
                                     2 * occ0.data[<<n>>][1] < occ0.data[<<n>>][3]},
                                 occ0.shape[1])))
    IN  val(get_occ_nospin)

\* QptAnalyzer.get_max_val: the last eigenvalue before the first band with
\* an occupation below 0.5
get_max_val ==
    LET first(low, N) == IF low = {} THEN N + 1 ELSE CHOOSE n \in low : \A j \in low : n <= j
        before(stop) == Ret(Eq(1, IF stop = 1 THEN 1 ELSE stop - 1))
        val(occ0) ==
            IF IsErr(occ0) THEN occ0
            ELSE before(first({n \in 1..occ0.shape[1] :
                                  2 * occ0.data[<<n>>][1] < occ0.data[<<n>>][3]},
                              occ0.shape[1]))
    IN  val(get_occ_nospin)

\* mutant: without a band of occupation at most 0.5 there is no minimum
get_min_cond_or_fail ==
    LET val(occ0) ==
            IF IsErr(occ0) THEN occ0
            ELSE IF \A n \in 1..occ0.shape[1] : 2 * occ0.data[<<n>>][1] > occ0.data[<<n>>][3]
            THEN Err("UnboundLocalError")
            ELSE Ret(Eq(1, CHOOSE n \in 1..occ0.shape[1] :
                             /\ 2 * occ0.data[<<n>>][1] <= occ0.data[<<n>>][3]
                             /\ \A j \in 1..(n - 1) :
                                   2 * occ0.data[<<j>>][1] > occ0.data[<<j>>][3]))
    IN  val(get_occ_nospin)

\* QptAnalyzer.get_min_cond: the eigenvalue of the first band with an
\* occupation of at most 0.5, the last eigenvalue when there is none
get_min_cond ==
    LET first(low, N) == IF low = {} THEN N ELSE CHOOSE n \in low : \A j \in low : n <= j
        val(occ0) ==
            IF IsErr(occ0) THEN occ0
            ELSE Ret(Eq(1, first({n \in 1..occ0.shape[1] :
                                     2 * occ0.data[<<n>>][1] <= occ0.data[<<n>>][3]},
                                 occ0.shape[1])))
    IN  val(get_occ_nospin)

\* QptAnalyzer.find_fermi_level
find_fermi_level ==
    LET mid(vbm, cbm) ==
            IF IsErr(vbm) THEN vbm
            ELSE IF IsErr(cbm) THEN cbm
            ELSE Ret(CMul(CRat(1, 2), CAdd(vbm.val, cbm.val)))
    IN  mid(get_max_val, get_min_cond)

\* ------------------------------------------------------------ reduce_array

\* mutant: the temperature index is appended before the mode index
final_indices_misordered(mode, temperature, omega) ==
    (IF temperature THEN <<2>> ELSE <<>>) \o (IF mode THEN <<1>> ELSE <<>>)
    \o (IF omega THEN <<3>> ELSE <<>>) \o <<4, 5>>

\* the characters of final_indices as axis numbers of 'otlkn'
final_indices(mode, temperature, omega) ==
    (IF mode THEN <<1>> ELSE <<>>) \o (IF temperature THEN <<2>> ELSE <<>>)
    \o (IF omega THEN <<3>> ELSE <<>>) \o <<4, 5>>

\* einsum('otlkn->' + final, a): the axes of 'otlkn' missing from final are
\* summed over; an operand whose rank is not 5 is rejected by einsum
einsum_otlkn(final, a) ==
    IF Len(a.shape) # 5 THEN Err("ValueError")
    ELSE LET kept == {final[j] : j \in 1..Len(final)}
             dropped == [j \in 1..5 |-> IF j \in kept THEN 1 ELSE a.shape[j]]
             pos(j) == CHOOSE p \in 1..Len(final) : final[p] = j
             full(ix, dx) == [j \in 1..5 |-> IF j \in kept THEN ix[pos(j)] ELSE dx[j]]
         IN  MkArr([p \in 1..Len(final) |-> a.shape[final[p]]],
                   LAMBDA ix : SumOver(Idx(dropped), LAMBDA dx : a.data[full(ix, dx)]))

\* mutant: the mode axis is always kept
reduce_array_keepmode(a, mode, temperature, omega) ==
    einsum_otlkn(final_indices(TRUE, temperature, omega), a)

reduce_array(a, mode, temperature, omega) ==
    einsum_otlkn(final_indices(mode, temperature, omega), a)

\* ------------------------------------------------ external collaborators

\* self.ddb.get_reduced_displ_squared(): the tensors the DdbFile holds
get_reduced_displ_squared == [FAN2 |-> ddb.displ_red_FAN2, DDW2 |-> ddb.displ_red_DDW2]

\* the Bose-Einstein occupation of a mode of frequency w at temperature T.
\* It is 0 at T = 0 and for a mode of zero frequency; the exponential law
\* 1/(exp(w/kT) - 1) is replaced by its high-temperature limit T/w.
bose_value(w, T) == IF T = 0 \/ w[1] <= 0 THEN CZero ELSE CDiv(CInt(T), w)

\* self.ddb.get_bose(temperatures) -> bose[nmode, ntemp]
get_bose(temps) ==
    MkArr(<<nmode, Len(temps)>>,
          LAMBDA ix : bose_value(CReal(ddb.omega.data[<<ix[1]>>]), temps[ix[2]]))

\* the Fermi-Dirac occupation of a level at energy x above the chemical
\* potential: the step function at T = 0 (1/2 at x = 0); the law
\* 1/(exp(x/kT) + 1) is replaced by (1 - x/(T + |x|))/2 for T > 0.
fermi_value(x, T) ==
    IF T = 0 THEN (IF x[1] < 0 THEN COne ELSE IF x[1] = 0 THEN CRat(1, 2) ELSE CZero)
    ELSE LET ax == IF x[1] < 0 THEN CNeg(x) ELSE x
         IN  CMul(CRat(1, 2), CSub(COne, CDiv(x, CAdd(CInt(T), ax))))

\* self.eigq.get_fermi_function(mu, temperatures) -> occ[nspin,nkpt,nband,ntemp];
\* an absent chemical potential stands for the midpoint of the gap
get_fermi_function(m, temps) ==
    LET occ(level, sh) ==
            IF IsErr(level) THEN level
            ELSE MkArr(<<sh[1], sh[2], sh[3], Len(temps)>>, LAMBDA ix :
                    fermi_value(CSub(CReal(eigq.EIG.data[<<ix[1], ix[2], ix[3]>>]),
                                     level.val), temps[ix[4]]))
    IN  occ(IF "none" \in DOMAIN m THEN find_fermi_level ELSE m, eigq.EIG.shape)

\* the bands n and m of k-point k are degenerate in the eigenvalues at k
degen(k, n, m) == E0(k, n) = E0(k, m)

\* self.eig0.symmetrize_fan_degen(a), a[nkpt,nband,nband,nmode]: the coupling
\* between degenerate bands, the diagonal included, is set to zero
symmetrize_fan_degen(a) ==
    MkArr(a.shape, LAMBDA ix : IF degen(ix[1], ix[2], ix[3]) THEN CZero ELSE a.data[ix])

\* self.eig0.make_average(a), a[..., nkpt, nband]: every entry is replaced by
\* the average over the bands degenerate with its band
make_average(a) ==
    LET r == Len(a.shape)
        group(k, n) == {m \in 1..a.shape[r] : degen(k, n, m)}
    IN  MkArr(a.shape, LAMBDA ix :
            CMul(CRat(1, Cardinality(group(ix[r - 1], ix[r]))),
                 SumOver(group(ix[r - 1], ix[r]),
                         LAMBDA m : a.data[[ix EXCEPT ![r] = m]])))

\* mathutil.delta_lorentzian(x, eta) multiplied by np.pi: eta / (x^2 + eta^2)
pi_delta_lorentzian(x, eta) == CDiv(eta, CAdd(CMul(x, x), CMul(eta, eta)))

\* ------------------------------------------------------------ the engines

\* sum over atom, direction, atom, direction of E[pre, a, b, i, j] * D[o, b, j, a, i]
\* (einsum 'knabij,objai', 'kniajbm,oabij' and 'ijklmn,olnkm'); post is the
\* trailing band index of a FAN array, or empty
contract(E, pre, post, D, o) ==
    LET p == Len(pre)
    IN  SumOver(Idx(<<E.shape[p + 1], E.shape[p + 2], E.shape[p + 3], E.shape[p + 4]>>),
                LAMBDA q : CMul(E.data[pre \o q \o post],
                                D.data[<<o, q[2], q[4], q[1], q[3]>>]))

\* 2 * bose + 1
two_bose_plus_1(bose) == MkArr(bose.shape, LAMBDA ix : CAdd(CMul(CInt(2), bose.data[ix]), COne))

\* einsum('okn,ot->otkn') followed by einsum('otkn,l->otlkn') with ones(nl)
spread_otlkn(a, tdep, nl) ==
    MkArr(<<a.shape[1], tdep.shape[2], nl, a.shape[2], a.shape[3]>>,
          LAMBDA ix : CMul(a.data[<<ix[1], ix[4], ix[5]>>], tdep.data[<<ix[1], ix[2]>>]))

\* QptAnalyzer.get_fan_ddw_sternheimer
get_fan_ddw_sternheimer(mode, omega, temperature) ==
    LET me == <<"get_fan_ddw_sternheimer">>
        nl == IF omega THEN nomegase ELSE 1
        fan3(E, displ) == MkArr(<<nmode, E.shape[1], E.shape[2]>>, LAMBDA ix :
                            contract(E, <<ix[2], ix[3]>>, <<>>, displ.FAN2, ix[1]))
        ddw3(Ez, displ) == MkArr(<<nmode, Ez.shape[1], Ez.shape[2]>>, LAMBDA ix :
                            contract(Ez, <<ix[2], ix[3]>>, <<>>, displ.DDW2, ix[1]))
        reduced(displ, tdep) ==
            [fan |-> reduce_array(spread_otlkn(fan3(eigr2d.EIG2D, displ), tdep, nl),
                                  mode, temperature, omega),
             ddw |-> reduce_array(spread_otlkn(ddw3(eigr2d0.EIG2D, displ), tdep, nl),
                                  mode, temperature, omega),
             trace |-> me]
    IN  IF IsErr(nkpt) THEN Raise(nkpt.err, me)
        ELSE IF ~eigr2d.fname \/ ~eigr2d0.fname THEN Raise("NoData", me)
        ELSE reduced(get_reduced_displ_squared,
                     IF temperature THEN two_bose_plus_1(get_bose(temperatures))
                     ELSE ones(<<nmode, 1>>))

\* einsum('kniajbm,oabij->knmo', g, D)
gkk2_num(g, D) ==
    MkArr(<<g.shape[1], g.shape[2], g.shape[7], nmode>>, LAMBDA ix :
        contract(g, <<ix[1], ix[2]>>, <<ix[3]>>, D, ix[4]))

\* mutant: fan_num is symmetrized at every q-point
gkk2_active_terms_sym_both ==
    LET sym(fan_num, ddw_num) ==
            [fan |-> symmetrize_fan_degen(fan_num),
             ddw |-> symmetrize_fan_degen(ddw_num),
             trace |-> <<"get_fan_ddw_gkk2_active">>]
        from(gkk2, gkk02, displ) ==
            sym(gkk2_num(gkk2, displ.FAN2), gkk2_num(gkk02, displ.DDW2))
    IN  from(IF use_gkk THEN gkk.gkk_squared ELSE fan.FAN,
             IF use_gkk THEN gkk0.gkk_squared ELSE fan0.FAN,
             get_reduced_displ_squared)

\* fan_num and ddw_num of get_fan_ddw_gkk2_active, from the gkk pair when
\* both its files are named and from the fan pair otherwise
gkk2_active_terms ==
    LET sym(fan_num, ddw_num) ==
            [fan |-> IF is_gamma THEN symmetrize_fan_degen(fan_num) ELSE fan_num,
             ddw |-> symmetrize_fan_degen(ddw_num),
             trace |-> <<"get_fan_ddw_gkk2_active">>]
        from(gkk2, gkk02, displ) ==
            sym(gkk2_num(gkk2, displ.FAN2), gkk2_num(gkk02, displ.DDW2))
    IN  from(IF use_gkk THEN gkk.gkk_squared ELSE fan.FAN,
             IF use_gkk THEN gkk0.gkk_squared ELSE fan0.FAN,
             get_reduced_displ_squared)

\* mutant: without active-space data the active terms are taken to be zero
get_fan_ddw_gkk2_active_unchecked ==
    LET none(K, N) == [fan |-> zeros(<<K, N, N, nmode>>), ddw |-> zeros(<<K, N, N, nmode>>),
                       trace |-> <<"get_fan_ddw_gkk2_active">>]
    IN  IF ~has_active THEN none(eigq.EIG.shape[2], eigq.EIG.shape[3])
        ELSE gkk2_active_terms

\* QptAnalyzer.get_fan_ddw_gkk2_active
get_fan_ddw_gkk2_active ==
    IF ~has_active THEN Raise("Exception", <<"get_fan_ddw_gkk2_active">>)
    ELSE gkk2_active_terms

\* delta_E_ddw[k,n,m] = E0[k,n] - E0[k,m] - (2 occ[m] - 1) * smearing * 1j
delta_E_ddw(occ, k, n, m) ==
    CSub(CSub(E0(k, n), E0(k, m)),
         CTimesI(CMul(CSub(CMul(CInt(2), occ.data[<<m>>]), COne), smearing)))

\* delta_E[k,n] = E0[k,n] - Eq[k,m] - (2 occ[m] - 1) * smearing * 1j
delta_E(occ, k, n, m) ==
    CSub(CSub(E0(k, n), Eq(k, m)),
         CTimesI(CMul(CSub(CMul(CInt(2), occ.data[<<m>>]), COne), smearing)))

\* omega_q = self.ddb.omega[:].real if dynamical else zeros(nmode)
omega_q(dynamical, o) == IF dynamical THEN CReal(ddb.omega.data[<<o>>]) ELSE CZero

\* QptAnalyzer.get_fan_ddw_active
get_fan_ddw_active(mode, omega, temperature, dynamical) ==
    LET me == <<"get_fan_ddw_active">>
        nt == IF temperature THEN ntemp ELSE 1
        temps == IF temperature THEN temperatures ELSE <<0>>
        nl == IF omega THEN nomegase ELSE 1
        omega_se == IF omega THEN omegase ELSE <<0>>
        terms(K, N, bose, tdep, occ, occ0, g) ==
            LET \* DDW term
                ddw3 == MkArr(<<nmode, K, N>>, LAMBDA ix :
                          SumN(N, LAMBDA m : CMul(g.ddw.data[<<ix[2], ix[3], m, ix[1]>>],
                                                  CInv(delta_E_ddw(occ0, ix[2], ix[3], m)))))
                \* Fan term
                n_B(o, t) == IF temperature THEN bose.data[<<o, t>>] ELSE CZero
                num1(k, n, o, t) == CSub(CAdd(n_B(o, t), COne), occ.data[<<1, k, n, t>>])
                num2(k, n, o, t) == CAdd(n_B(o, t), occ.data[<<1, k, n, t>>])
                delta_E_omega(k, n, l, kband) ==
                    CAdd(delta_E(occ0, k, n, kband), CInt(omega_se[l]))
                deno1(k, n, l, o, kband) ==
                    CSub(delta_E_omega(k, n, l, kband), omega_q(dynamical, o))
                deno2(k, n, l, o, kband) ==
                    CAdd(delta_E_omega(k, n, l, kband), omega_q(dynamical, o))
                term(o, t, l, k, n) ==
                    SumN(N, LAMBDA kband :
                        CMul(g.fan.data[<<k, n, kband, o>>],
                             CAdd(CDiv(num1(k, n, o, t), deno1(k, n, l, o, kband)),
                                  CDiv(num2(k, n, o, t), deno2(k, n, l, o, kband)))))
                fan5 == MkArr(<<nmode, nt, nl, K, N>>, LAMBDA ix :
                          term(ix[1], ix[2], ix[3], ix[4], ix[5]))
            IN  [fan |-> reduce_array(fan5, mode, temperature, omega),
                 ddw |-> reduce_array(spread_otlkn(ddw3, tdep, nl), mode, temperature, omega),
                 trace |-> me \o g.trace]
        guarded(bose, occ, occ0, g) ==
            IF IsErr(nkpt) THEN Raise(nkpt.err, me)
            ELSE IF IsErr(occ) THEN Raise(occ.err, me)
            ELSE IF IsErr(occ0) THEN Raise(occ0.err, me)
            ELSE IF IsErr(g) THEN Raise(g.err, me \o g.trace)
            ELSE terms(nkpt.val, nband.val, bose,
                       IF temperature THEN two_bose_plus_1(bose) ELSE ones(<<nmode, nt>>),
                       occ, occ0, g)
    IN  guarded(get_bose(temps), get_fermi_function(mu, temps), get_occ_nospin,
                get_fan_ddw_gkk2_active)

\* mutant: the active-space contribution is left out
get_fan_ddw_no_active(mode, temperature, omega, dynamical) ==
    get_fan_ddw_sternheimer(FALSE, FALSE, FALSE)

\* QptAnalyzer.get_fan_ddw: the four arguments are not used
get_fan_ddw(mode, temperature, omega, dynamical) ==
    LET sum(s, a) ==
            IF IsErr(s) THEN s
            ELSE IF IsErr(a) THEN Raise(a.err, s.trace \o a.trace)
            ELSE [fan |-> ArrAdd(a.fan, s.fan), ddw |-> ArrAdd(a.ddw, s.ddw),
                  trace |-> s.trace \o a.trace]
    IN  sum(get_fan_ddw_sternheimer(FALSE, FALSE, FALSE),
            get_fan_ddw_active(FALSE, FALSE, FALSE, FALSE))

\* ------------------------------------------------------- the aggregators

\* the outcome of a method call: the value returned (None when it raised),
\* the exception raised (empty when it returned), the engine calls made, and
\* the result fields assigned, with the last value assigned to each; a method
\* that returns has assigned the value it returns to its field
Returned(ret, trace, field) == [ret |-> ret, err |-> "", trace |-> trace, upd |-> field :> ret]
Raised(e, upd) == [ret |-> None, err |-> e.err, trace |-> e.trace, upd |-> upd]
NoUpd == <<>>
averaged == <<"make_average">>

\* QptAnalyzer.get_zpr_static_sternheimer
get_zpr_static_sternheimer ==
    LET value(s) ==
            IF IsErr(s) THEN Raised(s, NoUpd)
            ELSE Returned(make_average(ArrScale(wtq, ArrSub(s.fan, s.ddw))),
                          s.trace \o averaged, "zpr")
    IN  value(get_fan_ddw_sternheimer(FALSE, FALSE, FALSE))

\* self.zpr = self.wtq * (fan - ddw).real in get_zpr_static
zpr_static_value(f, d) == ArrScale(wtq, ArrReal(ArrSub(f, d)))

\* QptAnalyzer.get_zpr_static
get_zpr_static ==
    LET value(r) ==
            IF IsErr(r) THEN Raised(r, NoUpd)
            ELSE Returned(make_average(zpr_static_value(r.fan, r.ddw)),
                          r.trace \o averaged, "zpr")
    IN  value(get_fan_ddw(FALSE, FALSE, FALSE, FALSE))

\* E0[k,n] - Eq[k,m] and E0[k,n] - E0[k,m], without broadening
dE(k, n, m) == CSub(E0(k, n), Eq(k, m))
dE0(k, n, m) == CSub(E0(k, n), E0(k, m))

\* x / (x^2 + smearing^2)
principal(x) == CDiv(x, CAdd(CMul(x, x), CMul(smearing, smearing)))

\* np.real(x) / (np.real(x)^2 + np.imag(x)^2)
real_inverse(x) ==
    CDiv(CReal(x), CAdd(CMul(CReal(x), CReal(x)), CMul(CImag(x), CImag(x))))

\* self.ddb.omega[o].real
omega_real(o) == CReal(ddb.omega.data[<<o>>])

\* self.zpr = (fan - ddw) * self.wtq in get_zpr_dynamical
zpr_dynamical_value(f, d) == ArrScale(wtq, ArrSub(f, d))

\* occ[0,0,:,0] of the Fermi function occ[nspin,nkpt,nband,ntemp]
band_occ(N, f) == MkArr(<<N>>, LAMBDA ix : f.data[<<1, 1, ix[1], 1>>])

\* fan_active of get_zpr_dynamical: the Fan term of the active space, with
\* num1 = 1 - occ[m] and num2 = occ[m] of the band m summed over
zpr_dynamical_fan_active(K, N, g, occ) ==
    MkArr(<<K, N>>, LAMBDA ix :
        SumN(N, LAMBDA m : SumN(3 * natom, LAMBDA o :
            CMul(g.fan.data[<<ix[1], ix[2], m, o>>],
                 CAdd(CDiv(CSub(COne, occ.data[<<m>>]),
                           CSub(delta_E(occ, ix[1], ix[2], m), omega_real(o))),
                      CDiv(occ.data[<<m>>],
                           CAdd(delta_E(occ, ix[1], ix[2], m), omega_real(o))))))))

\* QptAnalyzer.get_zpr_dynamical
get_zpr_dynamical ==
    LET value(K, N, z0, s, g, f, a) ==
            IF IsErr(s) THEN Raised(s, "zpr" :> z0)
            ELSE IF IsErr(g) THEN Raised(Raise(g.err, s.trace \o g.trace), "zpr" :> z0)
            ELSE IF IsErr(f) THEN Raised(Raise(f.err, s.trace \o g.trace), "zpr" :> z0)
            ELSE IF IsErr(a)
            THEN Raised(Raise(a.err, s.trace \o g.trace \o a.trace), "zpr" :> z0)
            ELSE Returned(make_average(zpr_dynamical_value(
                              ArrAdd(s.fan, zpr_dynamical_fan_active(K, N, g, band_occ(N, f))),
                              ArrAdd(s.ddw, a.ddw))),
                          s.trace \o g.trace \o a.trace \o averaged, "zpr")
    IN  IF ~eigr2d.fname THEN Raised(Err("NoData"), NoUpd)
        ELSE value(eigr2d.nkpt, eigr2d.nband, zeros(<<eigr2d.nkpt, eigr2d.nband>>),
                   get_fan_ddw_sternheimer(FALSE, FALSE, FALSE),
                   get_fan_ddw_gkk2_active,
                   get_fermi_function(mu, <<0>>),
                   get_fan_ddw_active(FALSE, FALSE, FALSE, TRUE))

\* QptAnalyzer.get_zpb_dynamical
get_zpb_dynamical ==
    LET sgn(f) == CSub(CMul(CInt(2), f), COne)
        num1(f) == CNeg(CMul(CSub(COne, f), sgn(f)))
        num2(f) == CNeg(CMul(f, sgn(f)))
        fan_add(K, N, occ, g) == MkArr(<<K, N>>, LAMBDA ix :
            SumN(N, LAMBDA m : SumN(3 * natom, LAMBDA o :
                CMul(g.fan.data[<<ix[1], ix[2], m, o>>],
                     CAdd(CMul(num1(occ.data[<<m>>]), pi_delta_lorentzian(
                                CSub(dE(ix[1], ix[2], m), omega_real(o)), smearing)),
                          CMul(num2(occ.data[<<m>>]), pi_delta_lorentzian(
                                CAdd(dE(ix[1], ix[2], m), omega_real(o)), smearing)))))))
        value(K, N, occ, g) ==
            IF IsErr(K) THEN Raised(K, NoUpd)
            ELSE IF IsErr(occ) THEN Raised(occ, NoUpd)
            ELSE IF IsErr(g) THEN Raised(g, "zpb" :> zeros(<<K.val, N.val>>))
            ELSE Returned(make_average(ArrScale(wtq, fan_add(K.val, N.val, occ, g))),
                          g.trace \o averaged, "zpb")
    IN  value(nkpt, nband, get_occ_nospin, get_fan_ddw_gkk2_active)

\* QptAnalyzer.get_zpb_static
get_zpb_static ==
    LET num(f) == CNeg(CSub(CMul(CInt(2), f), COne))
        fan_add(K, N, occ, g) == MkArr(<<K, N>>, LAMBDA ix :
            SumN(N, LAMBDA m : SumN(nmode, LAMBDA o :
                CMul(g.fan.data[<<ix[1], ix[2], m, o>>],
                     CMul(num(occ.data[<<m>>]),
                          pi_delta_lorentzian(dE(ix[1], ix[2], m), smearing))))))
        value(K, N, occ, g) ==
            IF IsErr(K) THEN Raised(K, NoUpd)
            ELSE IF IsErr(occ) THEN Raised(occ, NoUpd)
            ELSE IF IsErr(g) THEN Raised(g, "zpb" :> zeros(<<K.val, N.val>>))
            ELSE Returned(make_average(ArrScale(wtq, fan_add(K.val, N.val, occ, g))),
                          g.trace \o averaged, "zpb")
    IN  value(nkpt, nband, get_occ_nospin, get_fan_ddw_gkk2_active)

\* fan_add of get_zp_self_energy: the Fan term of the active space at every
\* frequency, with num1[kband] = 1 - occ[kband] and occ[kband] of the band
\* kband summed over
zp_self_energy_fan_add(K, N, occ, g) ==
    LET div(f, d, o) == CAdd(CMul(CSub(COne, f), CInv(CSub(d, omega_real(o)))),
                             CMul(f, CInv(CAdd(d, omega_real(o)))))
    IN  MkArr(<<nomegase, K, N>>, LAMBDA ix :
            SumN(N, LAMBDA kband : SumN(3 * natom, LAMBDA o :
                CMul(g.fan.data[<<ix[2], ix[3], kband, o>>],
                     div(occ.data[<<kband>>],
                         CAdd(delta_E(occ, ix[2], ix[3], kband), CInt(omegase[ix[1]])),
                         o)))))

\* QptAnalyzer.get_zp_self_energy
get_zp_self_energy ==
    LET ddw_add(K, N, occ, g) == MkArr(<<nomegase, K, N>>, LAMBDA ix :
            SumN(N, LAMBDA m :
                CMul(SumN(nmode, LAMBDA o : g.ddw.data[<<ix[2], ix[3], m, o>>]),
                     CInv(delta_E_ddw(occ, ix[2], ix[3], m)))))
        value(K, N, s, g, occ) ==
            IF IsErr(K) THEN Raised(K, NoUpd)
            ELSE IF IsErr(s) THEN Raised(s, "sigma" :> zeros(<<K.val, N.val, nomegase>>))
            ELSE IF IsErr(g) THEN Raised(Raise(g.err, s.trace \o g.trace),
                                         "sigma" :> zeros(<<K.val, N.val, nomegase>>))
            ELSE IF IsErr(occ) THEN Raised(Raise(occ.err, s.trace \o g.trace),
                                           "sigma" :> zeros(<<K.val, N.val, nomegase>>))
            ELSE Returned(Permute(make_average(ArrScale(wtq,
                              ArrSub(ArrAdd(s.fan, zp_self_energy_fan_add(K.val, N.val, occ, g)),
                                     ArrAdd(s.ddw, ddw_add(K.val, N.val, occ, g))))),
                                  <<2, 3, 1>>),
                          s.trace \o g.trace \o averaged, "sigma")
    IN  value(nkpt, nband, get_fan_ddw_sternheimer(FALSE, TRUE, FALSE),
              get_fan_ddw_gkk2_active, get_occ_nospin)

\* mutant: the active-space contribution is obtained first
get_td_self_energy_active_first ==
    LET value(a, s) ==
            IF IsErr(a) THEN Raised(a, NoUpd)
            ELSE IF IsErr(s) THEN Raised(Raise(s.err, a.trace \o s.trace), NoUpd)
            ELSE Returned(Permute(make_average(ArrScale(wtq,
                              ArrAdd(ArrSub(a.fan, a.ddw), ArrSub(s.fan, s.ddw)))),
                                  <<3, 4, 2, 1>>),
                          a.trace \o s.trace \o averaged, "sigma")
    IN  value(get_fan_ddw_active(FALSE, TRUE, TRUE, TRUE),
              get_fan_ddw_sternheimer(FALSE, TRUE, TRUE))

\* QptAnalyzer.get_td_self_energy
get_td_self_energy ==
    LET value(s, a) ==
            IF IsErr(s) THEN Raised(s, NoUpd)
            ELSE IF IsErr(a) THEN Raised(Raise(a.err, s.trace \o a.trace), NoUpd)
            ELSE Returned(Permute(make_average(ArrScale(wtq,
                              ArrAdd(ArrSub(a.fan, a.ddw), ArrSub(s.fan, s.ddw)))),
                                  <<3, 4, 2, 1>>),
                          s.trace \o a.trace \o averaged, "sigma")
    IN  value(get_fan_ddw_sternheimer(FALSE, TRUE, TRUE),
              get_fan_ddw_active(FALSE, TRUE, TRUE, TRUE))

\* QptAnalyzer.get_tdr_static
get_tdr_static ==
    LET add(K, N, num, tb, diff(_, _, _)) == MkArr(<<ntemp, K, N>>, LAMBDA ix :
            SumN(N, LAMBDA m : SumN(nmode, LAMBDA o :
                CMul(num.data[<<ix[2], ix[3], m, o>>],
                     CMul(tb.data[<<o, ix[1]>>], principal(diff(ix[2], ix[3], m)))))))
        value(K, N, tb, s, g) ==
            IF IsErr(K) THEN Raised(K, NoUpd)
            ELSE IF IsErr(s) THEN Raised(s, "tdr" :> zeros(<<ntemp, K.val, N.val>>))
            ELSE IF IsErr(g) THEN Raised(Raise(g.err, s.trace \o g.trace),
                                         "tdr" :> zeros(<<ntemp, K.val, N.val>>))
            ELSE Returned(Permute(make_average(ArrScale(wtq,
                              ArrSub(ArrAdd(s.fan, add(K.val, N.val, g.fan, tb, dE)),
                                     ArrAdd(s.ddw, add(K.val, N.val, g.ddw, tb, dE0))))),
                                  <<2, 3, 1>>),
                          s.trace \o g.trace \o averaged, "tdr")
    IN  value(nkpt, nband, two_bose_plus_1(get_bose(temperatures)),
              get_fan_ddw_sternheimer(FALSE, FALSE, TRUE), get_fan_ddw_gkk2_active)

\* self.tdr = (fan - ddw) * self.wtq in get_tdr_dynamical
tdr_dynamical_value(f, d) == ArrScale(wtq, ArrSub(f, d))

\* QptAnalyzer.get_tdr_dynamical
get_tdr_dynamical ==
    LET ddw_add(K, N, tb, g, occ) == MkArr(<<ntemp, K, N>>, LAMBDA ix :
            SumN(N, LAMBDA m :
                CMul(SumN(nmode, LAMBDA o :
                        CMul(g.ddw.data[<<ix[2], ix[3], m, o>>], tb.data[<<o, ix[1]>>])),
                     CInv(delta_E_ddw(occ, ix[2], ix[3], m)))))
        div(b, f, d, o) == CAdd(CMul(CSub(CAdd(b, COne), f), real_inverse(CSub(d, omega_real(o)))),
                                CMul(CAdd(b, f), real_inverse(CAdd(d, omega_real(o)))))
        fan_add(K, N, bose, g, occ) == MkArr(<<ntemp, K, N>>, LAMBDA ix :
            SumN(N, LAMBDA m : SumN(nmode, LAMBDA o :
                CMul(g.fan.data[<<ix[2], ix[3], m, o>>],
                     div(bose.data[<<o, ix[1]>>], occ.data[<<m>>],
                         delta_E(occ, ix[2], ix[3], m), o)))))
        value(K, N, bose, s, g, occ) ==
            IF IsErr(K) THEN Raised(K, NoUpd)
            ELSE IF IsErr(s) THEN Raised(s, "tdr" :> zeros(<<ntemp, K.val, N.val>>))
            ELSE IF IsErr(g) THEN Raised(Raise(g.err, s.trace \o g.trace),
                                         "tdr" :> zeros(<<ntemp, K.val, N.val>>))
            ELSE IF IsErr(occ) THEN Raised(Raise(occ.err, s.trace \o g.trace),
                                           "tdr" :> zeros(<<ntemp, K.val, N.val>>))
            ELSE Returned(Permute(make_average(tdr_dynamical_value(
                              ArrAdd(s.fan, fan_add(K.val, N.val, bose, g, occ)),
                              ArrAdd(s.ddw, ddw_add(K.val, N.val, two_bose_plus_1(bose),
                                                    g, occ)))),
                                  <<2, 3, 1>>),
                          s.trace \o g.trace \o averaged, "tdr")
    IN  value(nkpt, nband, get_bose(temperatures),
              get_fan_ddw_sternheimer(FALSE, FALSE, TRUE), get_fan_ddw_gkk2_active,
              get_occ_nospin)

\* np.pi, as the fraction 22/7
PiNum == 22
PiDen == 7
Pi == CRat(PiNum, PiDen)

\* fan_corrQ = einsum('ijklmn,olnkm->oij', self.eigi2d.EIG2D, displ_red_FAN2)
fan_corrQ ==
    LET corr(E, D) == MkArr(<<nmode, E.shape[1], E.shape[2]>>, LAMBDA ix :
                        contract(E, <<ix[2], ix[3]>>, <<>>, D, ix[1]))
    IN  corr(eigi2d.EIG2D, get_reduced_displ_squared.FAN2)

\* mutant: the loop adds to the broadening already stored
tdb_start_stored(shape) == IF tdb = None THEN zeros(shape) ELSE Permute(tdb, <<3, 1, 2>>)

\* self.tdb = zeros((ntemp, nkpt, nband)), the start of the accumulation
tdb_start(shape) == zeros(shape)

\* QptAnalyzer.get_tdb_static
get_tdb_static ==
    LET acc(z0, corr, tb) == MkArr(z0.shape, LAMBDA ix :
            CAdd(z0.data[ix],
                 SumN(3 * natom, LAMBDA imode :
                    CMul(Pi, CMul(corr.data[<<imode, ix[2], ix[3]>>],
                                  tb.data[<<imode, ix[1]>>])))))
        value(z0) ==
            IF ~eigi2d.fname THEN Raised(Err("NoData"), "tdb" :> z0)
            ELSE Returned(Permute(make_average(ArrScale(wtq,
                              acc(z0, fan_corrQ, two_bose_plus_1(get_bose(temperatures))))),
                                  <<2, 3, 1>>),
                          averaged, "tdb")
    IN  IF IsErr(nkpt) THEN Raised(nkpt, NoUpd)
        ELSE value(tdb_start(<<ntemp, nkpt.val, nband.val>>))

\* QptAnalyzer.get_zpr_static_modes
get_zpr_static_modes ==
    LET active(K, N, num, diff(_, _, _)) == MkArr(<<3 * natom, K, N>>, LAMBDA ix :
            SumN(N, LAMBDA m : CMul(num.data[<<ix[2], ix[3], m, ix[1]>>],
                                    principal(diff(ix[2], ix[3], m)))))
        value(K, N, s, g) ==
            IF IsErr(K) THEN Raised(K, NoUpd)
            ELSE IF IsErr(s) THEN Raised(s, "zpr" :> zeros(<<3 * natom, K.val, N.val>>))
            ELSE IF IsErr(g) THEN Raised(Raise(g.err, s.trace \o g.trace),
                                         "zpr" :> zeros(<<3 * natom, K.val, N.val>>))
            ELSE Returned(make_average(ArrScale(wtq,
                              ArrSub(ArrAdd(s.fan, active(K.val, N.val, g.fan, dE)),
                                     ArrAdd(s.ddw, active(K.val, N.val, g.ddw, dE0))))),
                          s.trace \o g.trace \o averaged, "zpr")
    IN  value(nkpt, nband, get_fan_ddw_sternheimer(TRUE, FALSE, FALSE),
              get_fan_ddw_gkk2_active)

\* x > tol12, for x a fraction with a denominator below 10^12
exceeds_tol12(x) == x[1] > 0

\* QptAnalyzer.get_zpb_static_nosplit; the warning it issues on a broadening
\* with a positive imaginary part names a module that is not imported
get_zpb_static_nosplit ==
    LET acc(z0, corr) == MkArr(z0.shape, LAMBDA ix :
            CAdd(z0.data[ix],
                 CMul(Pi, SumN(nmode, LAMBDA o : corr.data[<<o, ix[1], ix[2]>>]))))
        checked(zw) ==
            IF \E ix \in DOMAIN zw.data : exceeds_tol12(CImag(zw.data[ix]))
            THEN Raised(Err("NameError"), "zpb" :> zw)
            ELSE Returned(make_average(zw), averaged, "zpb")
        value(z0) ==
            IF ~eigi2d.fname THEN Raised(Err("NoData"), "zpb" :> z0)
            ELSE checked(ArrScale(wtq, acc(z0, fan_corrQ)))
    IN  IF IsErr(nkpt) THEN Raised(nkpt, NoUpd)
        ELSE value(zeros(<<nkpt.val, nband.val>>))

\* mutant: the renormalization is not averaged over the degenerate bands
get_tdr_static_nosplit_unaveraged ==
    LET value(s) ==
            IF IsErr(s) THEN Raised(s, NoUpd)
            ELSE Returned(Permute(ArrScale(wtq, ArrSub(s.fan, s.ddw)), <<2, 3, 1>>),
                          s.trace, "tdr")
    IN  value(get_fan_ddw_sternheimer(FALSE, FALSE, TRUE))

\* QptAnalyzer.get_tdr_static_nosplit
get_tdr_static_nosplit ==
    LET value(s) ==
            IF IsErr(s) THEN Raised(s, NoUpd)
            ELSE Returned(Permute(make_average(ArrScale(wtq, ArrSub(s.fan, s.ddw))),
                                  <<2, 3, 1>>),
                          s.trace \o averaged, "tdr")
    IN  value(get_fan_ddw_sternheimer(FALSE, FALSE, TRUE))

\* ------------------------------------------------- instances and calls

\* DdbFile of NAtom atoms: frequencies and reduced displacements squared
DdbData(gamma) ==
    [natom |-> NAtom, nmode |-> 3 * NAtom, is_gamma |-> gamma,
     omega |-> MkArr(<<3 * NAtom>>, LAMBDA ix :
                 CNorm(ix[1] % 2, IF ix[1] % 3 = 0 THEN 1 ELSE 0, 1)),
     displ_red_FAN2 |-> MkArr(<<3 * NAtom, 3, 3, NAtom, NAtom>>, LAMBDA ix :
                 CInt(IF ix[2] = ix[3] THEN (IF ix[1] = 1 THEN 2 ELSE 1)
                      ELSE IF ix[1] = 2 /\ ix[2] < ix[3] THEN 1 ELSE 0)),
     displ_red_DDW2 |-> MkArr(<<3 * NAtom, 3, 3, NAtom, NAtom>>, LAMBDA ix :
                 CInt(IF ix[2] = ix[3] /\ ix[4] = ix[5] THEN 1 ELSE 0))]

\* EigFile: levels 0, 1, 2, ... at k+q; at k the same levels (e = 1) or
\* the two lowest bands degenerate (e = 2)
EigData(e, atq) ==
    [EIG |-> MkArr(<<1, NKpt, NBand>>, LAMBDA ix :
                CInt(IF atq \/ e = 1 THEN ix[3] - 1
                     ELSE IF ix[3] <= 2 THEN 0 ELSE ix[3] - 2))]

\* occupations of a gapped system with one filled band, each counted v times
GappedOcc(v) ==
    MkArr(<<1, NKpt, NBand>>, LAMBDA ix : CInt(IF ix[3] <= 1 THEN v ELSE 0))

\* Eigr2dFile: second-order eigenvalue derivatives
Eigr2dData(set, c, im) ==
    IF ~set THEN Unread
    ELSE [fname |-> TRUE, nkpt |-> NKpt, nband |-> NBand, natom |-> NAtom,
          occ |-> GappedOcc(2),
          EIG2D |-> MkArr(<<NKpt, NBand, NAtom, 3, NAtom, 3>>, LAMBDA ix :
                      IF ix[4] = ix[6] THEN CNorm(c + ix[2] - 1, im, 1)
                      ELSE CInt(IF ix[4] < ix[6] THEN 1 ELSE 0))]

\* FanFile: squared coupling matrix elements
FanData(set, c) ==
    IF ~set THEN Unread
    ELSE [fname |-> TRUE, nkpt |-> NKpt, nband |-> NBand,
          occ |-> GappedOcc(1),
          FAN |-> MkArr(<<NKpt, NBand, NAtom, 3, NAtom, 3, NBand>>, LAMBDA ix :
                      CInt(IF ix[4] = ix[6] /\ ix[3] = ix[5]
                           THEN (IF ix[2] = ix[7] THEN c ELSE 1) ELSE 0))]

\* GkkFile: gkk_squared is what get_gkk_squared() returns
GkkData(set, c) ==
    IF ~set THEN Unread
    ELSE [fname |-> TRUE, nkpt |-> NKpt, nband |-> NBand,
          occ |-> GappedOcc(2),
          gkk_squared |-> MkArr(<<NKpt, NBand, NAtom, 3, NAtom, 3, NBand>>, LAMBDA ix :
                      CInt(IF ix[4] = ix[6] /\ ix[3] = ix[5]
                           THEN (IF ix[2] = ix[7] THEN c ELSE 2) ELSE 0))]

FileChoices == [eigr2d : BOOLEAN, fan : BOOLEAN, fan0 : BOOLEAN,
                gkk : BOOLEAN, gkk0 : BOOLEAN]
AllFiles == [eigr2d |-> TRUE, fan |-> TRUE, fan0 |-> TRUE, gkk |-> TRUE, gkk0 |-> TRUE]
FanFiles == [AllFiles EXCEPT !.gkk = FALSE, !.gkk0 = FALSE]

\* the arguments of QptAnalyzer(...) and the contents of the files named
Contexts ==
    [fn : FileChoices, gamma : {FALSE}, e : {1}, nt : {1}, nl : {1},
     mu : {None}, im : {0}]
    \cup [fn : {AllFiles}, gamma : {FALSE}, e : {1}, nt : 0..MaxNTemp,
          nl : 0..MaxNOmega, mu : {None}, im : {0}]
    \cup [fn : {AllFiles}, gamma : BOOLEAN, e : {1, 2}, nt : {MaxNTemp},
          nl : {1}, mu : {None}, im : {0}]
    \cup [fn : {FanFiles}, gamma : {TRUE}, e : {2}, nt : {MaxNTemp},
          nl : {MaxNOmega}, mu : {None, Ret(CRat(1, 4))}, im : {0, 1}]

Init ==
    /\ \E c \in Contexts :
          /\ ddb = DdbData(c.gamma)
          /\ eigq = EigData(c.e, TRUE)
          /\ eig0 = EigData(c.e, FALSE)
          /\ eigr2d = Eigr2dData(c.fn.eigr2d, 1, 0)
          /\ eigr2d0 = Eigr2dData(TRUE, 2, 0)
          /\ eigi2d = Eigr2dData(TRUE, 0, c.im)
          /\ fan = FanData(c.fn.fan, 1)
          /\ fan0 = FanData(c.fn.fan0, 2)
          /\ gkk = GkkData(c.fn.gkk, 2)
          /\ gkk0 = GkkData(c.fn.gkk0, 1)
          /\ temperatures = [i \in 1..c.nt |-> i - 1]
          /\ omegase = [i \in 1..c.nl |-> IF i % 2 = 1 THEN 1 ELSE -1]
          /\ mu = c.mu
    /\ wtq = CRat(1, 2)
    /\ smearing = COne
    /\ zpr = None /\ zpb = None /\ tdr = None /\ tdb = None /\ sigma = None
    /\ call = None /\ prev = None /\ ncalls = 0
    /\ arr = None /\ flags = None /\ red = None /\ flags2 = None /\ red2 = None
    /\ occ_out = None /\ got = <<>>

\* the state after a call of method name with outcome r
Called(name, r) ==
    LET field(f, old) == IF f \in DOMAIN r.upd THEN r.upd[f] ELSE old
    IN  /\ ncalls < MaxCalls
        /\ ncalls' = ncalls + 1
        /\ call' = [name |-> name, ok |-> r.err = "", err |-> r.err,
                    ret |-> r.ret, trace |-> r.trace]
        /\ prev' = call
        /\ zpr' = field("zpr", zpr)
        /\ zpb' = field("zpb", zpb)
        /\ tdr' = field("tdr", tdr)
        /\ tdb' = field("tdb", tdb)
        /\ sigma' = field("sigma", sigma)
        /\ UNCHANGED <<selfvars, benchvars>>

Call_get_zpr_static_sternheimer ==
    Called("get_zpr_static_sternheimer", get_zpr_static_sternheimer)
Call_get_zpr_static == Called("get_zpr_static", get_zpr_static)
Call_get_zpr_dynamical == Called("get_zpr_dynamical", get_zpr_dynamical)
Call_get_zpb_dynamical == Called("get_zpb_dynamical", get_zpb_dynamical)
Call_get_zpb_static == Called("get_zpb_static", get_zpb_static)
Call_get_zp_self_energy == Called("get_zp_self_energy", get_zp_self_energy)
Call_get_td_self_energy == Called("get_td_self_energy", get_td_self_energy)
Call_get_tdr_static == Called("get_tdr_static", get_tdr_static)
Call_get_tdr_dynamical == Called("get_tdr_dynamical", get_tdr_dynamical)
Call_get_tdb_static == Called("get_tdb_static", get_tdb_static)
Call_get_zpr_static_modes == Called("get_zpr_static_modes", get_zpr_static_modes)
Call_get_zpb_static_nosplit == Called("get_zpb_static_nosplit", get_zpb_static_nosplit)
Call_get_tdr_static_nosplit == Called("get_tdr_static_nosplit", get_tdr_static_nosplit)

Next ==
    \/ Call_get_zpr_static_sternheimer
    \/ Call_get_zpr_static
    \/ Call_get_zpr_dynamical
    \/ Call_get_zpb_dynamical
    \/ Call_get_zpb_static
    \/ Call_get_zp_self_energy
    \/ Call_get_td_self_energy
    \/ Call_get_tdr_static
    \/ Call_get_tdr_dynamical
    \/ Call_get_tdb_static
    \/ Call_get_zpr_static_modes
    \/ Call_get_zpb_static_nosplit
    \/ Call_get_tdr_static_nosplit

Spec == Init /\ [][Next]_vars

\* ------------------------------------------- properties of the aggregators

Sternheimer == "get_fan_ddw_sternheimer"
ActiveEngines == {"get_fan_ddw_active", "get_fan_ddw_gkk2_active"}

\* a call of one of the named methods has been made, and it returned
CalledOne(names) == call # None /\ call.name \in names
ReturnedFrom(names) == CalledOne(names) /\ call.ok

\* the result field a method assigns, and its stored value
FieldName(name) ==
    IF name \in {"get_zpr_static_sternheimer", "get_zpr_static", "get_zpr_dynamical",
                 "get_zpr_static_modes"} THEN "zpr"
    ELSE IF name \in {"get_zpb_static", "get_zpb_dynamical", "get_zpb_static_nosplit"}
    THEN "zpb"
    ELSE IF name \in {"get_tdr_static", "get_tdr_dynamical", "get_tdr_static_nosplit"}
    THEN "tdr"
    ELSE IF name = "get_tdb_static" THEN "tdb"
    ELSE "sigma"
Stored(f) ==
    IF f = "zpr" THEN zpr ELSE IF f = "zpb" THEN zpb ELSE IF f = "tdr" THEN tdr
    ELSE IF f = "tdb" THEN tdb ELSE sigma

AllReal(a) == \A ix \in DOMAIN a.data : IsReal(a.data[ix])
SomeNonzero(a) == \E ix \in DOMAIN a.data : a.data[ix] # CZero

\* wtq * Re(fan - ddw) of one engine's terms, averaged over degenerate bands
StaticPart(x) == make_average(ArrScale(wtq, ArrReal(ArrSub(x.fan, x.ddw))))
Sternheimer_static == StaticPart(get_fan_ddw_sternheimer(FALSE, FALSE, FALSE))
Active_static == StaticPart(get_fan_ddw_active(FALSE, FALSE, FALSE, FALSE))

\* C1: the value get_zpr_static returns is the average of wtq * Re(fan - ddw)
\* with fan and ddw the sums of the Sternheimer terms and of the active-space
\* terms, both with all flags false and dynamical false; it equals the sum
\* of the Sternheimer-only and the active-only static values.
C1_StaticAdditive ==
    ReturnedFrom({"get_zpr_static"}) =>
        LET both(s, a) == [fan |-> ArrAdd(s.fan, a.fan), ddw |-> ArrAdd(s.ddw, a.ddw)]
            additive(s, a) ==
                /\ ~IsErr(s) /\ ~IsErr(a)
                /\ call.ret = StaticPart(both(s, a))
                /\ call.ret = ArrAdd(StaticPart(s), StaticPart(a))
        IN  additive(get_fan_ddw_sternheimer(FALSE, FALSE, FALSE),
                     get_fan_ddw_active(FALSE, FALSE, FALSE, FALSE))

\* get_zpr_static has returned a value to which both terms contribute
C1_Witness ==
    /\ ReturnedFrom({"get_zpr_static"})
    /\ SomeNonzero(Sternheimer_static)
    /\ SomeNonzero(Active_static)

NeedActive ==
    {"get_zpr_static", "get_zpr_dynamical", "get_zpr_static_modes", "get_zpb_static",
     "get_zpb_dynamical", "get_tdr_static", "get_tdr_dynamical", "get_zp_self_energy",
     "get_td_self_energy"}
NoActivePair == ~(fan.fname /\ fan0.fname) /\ ~(gkk.fname /\ gkk0.fname)

\* C2: when neither the pair (fan, fan0) nor the pair (gkk, gkk0) has both
\* filenames set, every call of an aggregator that needs active-space data
\* raises and returns nothing; when the Sternheimer data can be read, the
\* exception is the one get_fan_ddw_gkk2_active raises.
C2_NoActiveFails ==
    (CalledOne(NeedActive) /\ NoActivePair) =>
        /\ ~call.ok
        /\ call.ret = None
        /\ call.err \in {"Exception", "NoData"}
        /\ eigr2d.fname =>
              /\ call.err = "Exception"
              /\ call.trace # <<>>
              /\ call.trace[Len(call.trace)] = "get_fan_ddw_gkk2_active"

\* an aggregator has been called with one filename of each pair set
C2_Witness ==
    /\ CalledOne({"get_td_self_energy"})
    /\ eigr2d.fname /\ fan.fname /\ ~fan0.fname /\ ~gkk.fname /\ gkk0.fname
    /\ call.err = "Exception"

Renormalizations ==
    {"get_zpr_static", "get_zpr_dynamical", "get_tdr_static", "get_tdr_dynamical"}

\* C3: the value a renormalization observable returns and stores has no
\* imaginary part.
C3_Original ==
    ReturnedFrom(Renormalizations) =>
        AllReal(call.ret) /\ AllReal(Stored(FieldName(call.name)))

\* the engines called come in the order Sternheimer, active space, average
SternheimerThenActive(t) ==
    /\ Len(t) >= 3
    /\ t[1] = Sternheimer
    /\ \A i \in 2..Len(t) - 1 : t[i] \in ActiveEngines
    /\ t[Len(t)] = "make_average"
ActiveOnly(t) ==
    /\ Len(t) >= 2
    /\ \A i \in 1..Len(t) - 1 : t[i] \in ActiveEngines
    /\ t[Len(t)] = "make_average"

Observables ==
    {"get_zpr_static", "get_zpr_dynamical", "get_zpb_static", "get_zpb_dynamical",
     "get_tdr_static", "get_tdr_dynamical", "get_tdb_static", "get_zp_self_energy",
     "get_td_self_energy"}
TwoPhase ==
    {"get_zpr_static", "get_zpr_dynamical", "get_tdr_static", "get_tdr_dynamical",
     "get_zp_self_energy", "get_td_self_energy"}

\* C4 as stated: every observable method obtains the Sternheimer contribution
\* first and the active-space contribution second.
C4_Original == ReturnedFrom(Observables) => SternheimerThenActive(call.trace)

\* C4: the renormalization and self-energy methods obtain the Sternheimer
\* contribution first and the active-space contribution second, and never
\* the active-space contribution without the Sternheimer one before it; the
\* two zero-point broadening methods obtain the active-space contribution
\* only, and get_tdb_static obtains neither.
C4_Amended ==
    /\ ReturnedFrom(TwoPhase) => SternheimerThenActive(call.trace)
    /\ (CalledOne(TwoPhase) /\ call.trace # <<>>) => call.trace[1] = Sternheimer
    /\ ReturnedFrom({"get_zpb_static", "get_zpb_dynamical"}) => ActiveOnly(call.trace)
    /\ CalledOne({"get_zpb_static", "get_zpb_dynamical", "get_tdb_static"}) =>
          \A i \in 1..Len(call.trace) : call.trace[i] # Sternheimer
    /\ CalledOne({"get_tdb_static"}) =>
          \A i \in 1..Len(call.trace) : call.trace[i] \notin ActiveEngines

\* a broadening has been returned by a call that used the active space only
C4_Witness ==
    /\ ReturnedFrom({"get_zpb_static"})
    /\ call.trace = <<"get_fan_ddw_gkk2_active", "make_average">>
    /\ SomeNonzero(call.ret)

\* C5: after a call that returned, the field the method assigns holds the
\* value returned; a field assigned by the call before it, when that call
\* returned and assigns another field, still holds the value that call
\* returned; and a method called twice in a row returns the same value.
C5_Overwritten ==
    (call # None /\ call.ok) =>
        /\ Stored(FieldName(call.name)) = call.ret
        /\ (prev # None /\ prev.ok /\ FieldName(prev.name) # FieldName(call.name)) =>
              Stored(FieldName(prev.name)) = prev.ret
        /\ (prev # None /\ prev.ok /\ prev.name = call.name) => call.ret = prev.ret

\* get_tdb_static, which adds its terms to the field, has returned twice
C5_Witness ==
    /\ prev # None /\ prev.ok /\ prev.name = "get_tdb_static"
    /\ ReturnedFrom({"get_tdb_static"})
    /\ SomeNonzero(tdb)

\* the shape every method of a kind returns: (nkpt, nband) followed by the
\* frequency axis and the temperature axis of the kind
CanonicalShape(name) ==
    <<nkpt.val, nband.val>>
    \o (IF FieldName(name) = "sigma" THEN <<nomegase>> ELSE <<>>)
    \o (IF FieldName(name) \in {"tdr", "tdb"} \/ name = "get_td_self_energy"
        THEN <<ntemp>> ELSE <<>>)

\* C6 as stated: every ZPR and ZPB result has shape (nkpt, nband), every TDR
\* and TDB result (nkpt, nband, ntemp), get_zp_self_energy (nkpt, nband,
\* nomegase) and get_td_self_energy (nkpt, nband, nomegase, ntemp).
C6_Original ==
    (call # None /\ call.ok) => call.ret.shape = CanonicalShape(call.name)

\* C6: the same for every method but get_zpr_static_modes, whose result has
\* shape (3 natom, nkpt, nband); every index of the shape has an entry, and
\* the field stored has the shape returned.
C6_Amended ==
    (call # None /\ call.ok) =>
        /\ call.ret.shape = IF call.name = "get_zpr_static_modes"
                            THEN <<3 * natom, nkpt.val, nband.val>>
                            ELSE CanonicalShape(call.name)
        /\ DOMAIN call.ret.data = Idx(call.ret.shape)
        /\ Stored(FieldName(call.name)).shape = call.ret.shape

\* the self-energy has been returned for a frequency mesh and no temperature
C6_Witness ==
    /\ ReturnedFrom({"get_td_self_energy"})
    /\ ntemp = 0 /\ nomegase = MaxNOmega
    /\ call.ret.shape = <<NKpt, NBand, MaxNOmega, 0>>

\* wtq * pi * sum over the modes of fan_corrQ, the broadening of
\* get_zpb_static_nosplit before the average
Broadening_nosplit ==
    LET summed(corr) == ArrScale(wtq, MkArr(<<corr.shape[2], corr.shape[3]>>, LAMBDA ix :
                            CMul(Pi, SumN(nmode, LAMBDA o : corr.data[<<o, ix[1], ix[2]>>]))))
    IN  summed(fan_corrQ)

\* C14: when the broadening get_zpb_static_nosplit computes has an entry with
\* an imaginary part above tol12, the call does not raise: it returns, and
\* stores, the band average of that broadening.
C14_Original ==
    LET proceeds(b) ==
            (\E ix \in DOMAIN b.data : exceeds_tol12(CImag(b.data[ix]))) =>
                /\ call.ok
                /\ call.ret = make_average(b)
                /\ zpb = call.ret
    IN  (CalledOne({"get_zpb_static_nosplit"}) /\ eigi2d.fname /\ ~IsErr(nkpt))
            => proceeds(Broadening_nosplit)

\* C15: the Fan term get_fan_ddw_active gives with dynamical = True and the
\* temperature off equals the Fan term of the active space get_zpr_dynamical
\* computes inline, and with the frequency axis kept the one
\* get_zp_self_energy computes inline.
C15_Original ==
    /\ ReturnedFrom({"get_zpr_dynamical"}) =>
          LET same(a, g, f) ==
                  a.fan = zpr_dynamical_fan_active(nkpt.val, nband.val, g,
                                                   band_occ(nband.val, f))
          IN  same(get_fan_ddw_active(FALSE, FALSE, FALSE, TRUE),
                   get_fan_ddw_gkk2_active, get_fermi_function(mu, <<0>>))
    /\ ReturnedFrom({"get_zp_self_energy"}) =>
          LET same(a, g, occ) ==
                  a.fan = zp_self_energy_fan_add(nkpt.val, nband.val, occ, g)
          IN  same(get_fan_ddw_active(FALSE, TRUE, FALSE, TRUE),
                   get_fan_ddw_gkk2_active, get_occ_nospin)

\* ------------------------------------------- test bench of reduce_array

Flags == [mode : BOOLEAN, temperature : BOOLEAN, omega : BOOLEAN]
AllFlags(f, b) == f.mode = b /\ f.temperature = b /\ f.omega = b

\* two families of input values: distinct reals, and complex numbers
BenchValue(p, ix) ==
    IF p = 1 THEN CInt(ix[1] + 2 * ix[2] + 4 * ix[3] + 8 * ix[4] + 16 * ix[5])
    ELSE CNorm(ix[5] - ix[1], ix[2] * ix[3] + ix[4], ix[1])

BenchShapes ==
    {<<3 * NAtom, t, l, NKpt, NBand>> : t \in 0..MaxNTemp, l \in 0..MaxNOmega}

BenchArrays ==
    {MkArr(sh, LAMBDA ix : BenchValue(p, ix)) : sh \in BenchShapes, p \in 1..2}

NoInstance ==
    /\ ddb = None /\ eigq = None /\ eig0 = None
    /\ eigr2d = None /\ eigr2d0 = None /\ eigi2d = None
    /\ fan = None /\ fan0 = None /\ gkk = None /\ gkk0 = None
    /\ wtq = None /\ smearing = None /\ temperatures = None
    /\ omegase = None /\ mu = None
    /\ zpr = None /\ zpb = None /\ tdr = None /\ tdb = None /\ sigma = None
    /\ call = None /\ prev = None /\ ncalls = 0

InitReduce ==
    /\ NoInstance
    /\ arr \in BenchArrays
    /\ flags = None /\ red = None /\ flags2 = None /\ red2 = None
    /\ occ_out = None /\ got = <<>>

\* red = QptAnalyzer.reduce_array(arr, mode, temperature, omega)
Reduce ==
    /\ red = None
    /\ \E f \in Flags :
          /\ flags' = f
          /\ red' = reduce_array(arr, f.mode, f.temperature, f.omega)
    /\ UNCHANGED <<selfvars, resvars, callvars, arr, flags2, red2, occ_out, got>>

\* red2 = QptAnalyzer.reduce_array(red, mode, temperature, omega)
ReduceAgain ==
    /\ red # None /\ red2 = None
    /\ \E f \in Flags :
          /\ flags2' = f
          /\ red2' = reduce_array(red, f.mode, f.temperature, f.omega)
    /\ UNCHANGED <<selfvars, resvars, callvars, arr, flags, red, occ_out, got>>

NextReduce == Reduce \/ ReduceAgain
SpecReduce == InitReduce /\ [][NextReduce]_vars

\* reference summation: the entry of the reduced array at ix, as nested sums
\* over mode, temperature and frequency in which a kept axis is pinned to ix
RefEntry(a, f, ix) ==
    LET r == Len(ix)
        at(j) == ix[r - (5 - j)]
        io == IF f.mode THEN ix[1] ELSE 0
        it == IF f.temperature THEN ix[IF f.mode THEN 2 ELSE 1] ELSE 0
        il == IF f.omega THEN ix[r - 2] ELSE 0
    IN  SumN(a.shape[1], LAMBDA o :
          SumN(a.shape[2], LAMBDA t :
            SumN(a.shape[3], LAMBDA l :
              IF (f.mode => o = io) /\ (f.temperature => t = it) /\ (f.omega => l = il)
              THEN a.data[<<o, t, l, at(4), at(5)>>] ELSE CZero)))

RefShape(a, f) ==
    (IF f.mode THEN <<a.shape[1]>> ELSE <<>>)
    \o (IF f.temperature THEN <<a.shape[2]>> ELSE <<>>)
    \o (IF f.omega THEN <<a.shape[3]>> ELSE <<>>)
    \o <<a.shape[4], a.shape[5]>>

\* np.sum(a, axis): the array a with one axis summed away
SumAxis(a, axis) ==
    LET r == Len(a.shape)
        sh == [j \in 1..(r - 1) |-> a.shape[IF j < axis THEN j ELSE j + 1]]
        ins(ix, i) == [j \in 1..r |-> IF j < axis THEN ix[j]
                                      ELSE IF j = axis THEN i ELSE ix[j - 1]]
    IN  MkArr(sh, LAMBDA ix : SumN(a.shape[axis], LAMBDA i : a.data[ins(ix, i)]))

\* C7: reduce_array sums away exactly the axes among mode, temperature and
\* frequency whose flag is false, keeps kpt and band, orders the kept axes as
\* mode, temperature, frequency, kpt, band; with all flags false every entry
\* [k,n] is the triple sum of the input, with all flags true the output is the
\* input.
C7_ReduceContract ==
    red # None =>
        /\ IsArr(red)
        /\ red.shape = RefShape(arr, flags)
        /\ \A ix \in Idx(red.shape) : red.data[ix] = RefEntry(arr, flags, ix)
        /\ AllFlags(flags, TRUE) => red = arr
        /\ AllFlags(flags, FALSE) =>
              \A k \in 1..arr.shape[4], n \in 1..arr.shape[5] :
                 red.data[<<k, n>>] =
                    SumN(arr.shape[1], LAMBDA o : SumN(arr.shape[2], LAMBDA t :
                      SumN(arr.shape[3], LAMBDA l : arr.data[<<o, t, l, k, n>>])))

\* C7 witness: a full reduction of a non-empty complex array has been made,
\* and its result is not zero
C7_Witness ==
    /\ red # None /\ AllFlags(flags, FALSE)
    /\ arr.shape[2] = 2 /\ arr.shape[3] = 2
    /\ \E ix \in Idx(red.shape) : red.data[ix][2] # 0

\* C8 as stated: applying reduce_array to the output of reduce_array
\* returns that output unchanged.
C8_Original == red2 # None => red2 = red

\* C8 amended: reduce_array takes 5-axis arrays only.  Applied to its own
\* output it returns the output unchanged when both applications keep all
\* three axes, and fails with a rank error when the first application removed
\* an axis.  The order of summation does not matter: removing mode and
\* temperature in one call equals summing mode then temperature, and
\* temperature then mode.
C8_Amended ==
    /\ red2 # None =>
          IF AllFlags(flags, TRUE)
          THEN AllFlags(flags2, TRUE) => red2 = red
          ELSE red2 = Err("ValueError")
    /\ (red # None /\ ~flags.mode /\ ~flags.temperature) =>
          LET base == IF flags.omega THEN arr ELSE SumAxis(arr, 3)
          IN  /\ red = SumAxis(SumAxis(base, 1), 1)
              /\ red = SumAxis(SumAxis(base, 2), 1)

\* C8 witness: a second reduction was applied to an output that had lost its
\* mode and temperature axes, and was rejected
C8_Witness ==
    /\ red2 = Err("ValueError") /\ ~flags.mode /\ ~flags.temperature
    /\ arr.shape[2] = 2 /\ arr.shape[3] = 1

\* ------------------------------------------ test bench of get_occ_nospin

OccBands == 4       \* number of bands of the occupation test bench

\* occupations occ[spin,kpt,band] of a file whose first k-point holds v
OccArray(v) ==
    MkArr(<<1, NKpt, Len(v)>>, LAMBDA ix : IF ix[2] = 1 THEN CInt(v[ix[3]]) ELSE CZero)

\* a file that was read, as far as the occupation accessors look at it
OccFile(v) == [fname |-> TRUE, nkpt |-> NKpt, nband |-> Len(v), occ |-> OccArray(v)]

RawOccupations == [1..OccBands -> {0, 1, 2}]
FilledTo(j, v) == [n \in 1..OccBands |-> IF n <= j THEN v ELSE 0]

InitOcc ==
    /\ eigr2d \in {Unread} \cup {OccFile(v) : v \in RawOccupations}
    /\ fan \in {Unread, OccFile(FilledTo(1, 2)), OccFile(FilledTo(2, 1))}
    /\ gkk \in {Unread, OccFile(FilledTo(3, 2)), OccFile(FilledTo(3, 1))}
    /\ ddb = None /\ eigq = None /\ eig0 = None
    /\ eigr2d0 = None /\ eigi2d = None /\ fan0 = None /\ gkk0 = None
    /\ wtq = None /\ smearing = None /\ temperatures = None
    /\ omegase = None /\ mu = None
    /\ zpr = None /\ zpb = None /\ tdr = None /\ tdb = None /\ sigma = None
    /\ call = None /\ prev = None /\ ncalls = 0
    /\ arr = None /\ flags = None /\ red = None /\ flags2 = None /\ red2 = None
    /\ occ_out = None /\ got = <<>>

\* occ_out = self.get_occ_nospin()
GetOccNospin ==
    /\ occ_out = None
    /\ occ_out' = get_occ_nospin
    /\ UNCHANGED <<selfvars, resvars, callvars, arr, flags, red, flags2, red2, got>>

NextOcc == GetOccNospin
SpecOcc == InitOcc /\ [][NextOcc]_vars

\* the raw band occupation (spin 0, k-point 0) of the selected source
RawOcc ==
    LET f == IF eigr2d.fname THEN eigr2d ELSE IF fan.fname THEN fan ELSE gkk
    IN  [n \in 1..f.nband |-> f.occ.data[<<1, 1, n>>]]

OccOut == [n \in 1..occ_out.shape[1] |-> occ_out.data[<<n>>]]

\* C9: get_occ_nospin returns the raw band occupation of the selected source
\* divided elementwise by 2 when at least one raw entry equals 2, and
\* unchanged when no entry equals 2; [2,2,0,0] gives [1,1,0,0] and [1,1,0,0]
\* gives [1,1,0,0].
C9_OccupationHalving ==
    (occ_out # None /\ IsArr(occ_out)) =>
        /\ occ_out.shape = <<Len(RawOcc)>>
        /\ IF \E n \in 1..Len(RawOcc) : RawOcc[n] = CInt(2)
           THEN \A n \in 1..Len(RawOcc) : CMul(CInt(2), OccOut[n]) = RawOcc[n]
           ELSE OccOut = RawOcc
        /\ RawOcc = <<CInt(2), CInt(2), CInt(0), CInt(0)>>
              => OccOut = <<CInt(1), CInt(1), CInt(0), CInt(0)>>
        /\ RawOcc = <<CInt(1), CInt(1), CInt(0), CInt(0)>>
              => OccOut = <<CInt(1), CInt(1), CInt(0), CInt(0)>>

\* C9 witness: the occupations [2,2,0,0] have been halved
C9_Witness ==
    /\ occ_out # None /\ IsArr(occ_out)
    /\ RawOcc = <<CInt(2), CInt(2), CInt(0), CInt(0)>>
    /\ OccOut = <<CInt(1), CInt(1), CInt(0), CInt(0)>>

\* C10 as stated: for every raw occupation vector with entries in {0,1,2},
\* every entry of the vector get_occ_nospin returns is 0 or 1.
C10_Original ==
    (occ_out # None /\ IsArr(occ_out)) =>
        \A n \in 1..Len(OccOut) : OccOut[n] \in {CInt(0), CInt(1)}

\* C10 amended: for every raw occupation vector whose entries are all in
\* {0,2} or all in {0,1}, every entry returned is 0 or 1; in a vector that
\* holds both 2 and 1, each entry 1 is returned as 1/2.
C10_Amended ==
    (occ_out # None /\ IsArr(occ_out)) =>
        LET vals == {RawOcc[n] : n \in 1..Len(RawOcc)}
        IN  /\ (vals \subseteq {CInt(0), CInt(2)} \/ vals \subseteq {CInt(0), CInt(1)})
                  => \A n \in 1..Len(OccOut) : OccOut[n] \in {CInt(0), CInt(1)}
            /\ ({CInt(1), CInt(2)} \subseteq vals)
                  => \A n \in 1..Len(OccOut) :
                        RawOcc[n] = CInt(1) => OccOut[n] = CRat(1, 2)

\* C10 witness: spin-doubled occupations [2,2,2,0] were normalised to {0,1}
C10_Witness ==
    /\ occ_out # None /\ IsArr(occ_out)
    /\ RawOcc = <<CInt(2), CInt(2), CInt(2), CInt(0)>>
    /\ OccOut = <<CInt(1), CInt(1), CInt(1), CInt(0)>>

\* ------------------------------------------ test bench of the accessors

\* occupations of n bands of which the lowest j are filled, each counted v times
Filled(n, j, v) == [i \in 1..n |-> IF i <= j THEN v ELSE 0]

\* a file that was read, with k k-points and the band occupations v
SourceFile(k, v) ==
    [fname |-> TRUE, nkpt |-> k, nband |-> Len(v),
     occ |-> MkArr(<<1, k, Len(v)>>, LAMBDA ix : CInt(v[ix[3]]))]

NoResults ==
    /\ zpr = None /\ zpb = None /\ tdr = None /\ tdb = None /\ sigma = None
    /\ call = None /\ prev = None /\ ncalls = 0
    /\ arr = None /\ flags = None /\ red = None /\ flags2 = None /\ red2 = None
    /\ occ_out = None

\* the three files differ in their numbers of k-points and of bands
InitAccess ==
    /\ eigr2d \in {Unread} \cup {SourceFile(NKpt, Filled(NBand, 1, v)) : v \in 1..2}
    /\ fan \in {Unread} \cup {SourceFile(NKpt + 1, Filled(NBand + 1, 2, v)) : v \in 1..2}
    /\ gkk \in {Unread} \cup {SourceFile(NKpt + 2, Filled(NBand + 2, 3, v)) : v \in 1..2}
    /\ ddb = None /\ eigq = None /\ eig0 = None
    /\ eigr2d0 = None /\ eigi2d = None /\ fan0 = None /\ gkk0 = None
    /\ wtq = None /\ smearing = None /\ temperatures = None
    /\ omegase = None /\ mu = None
    /\ NoResults
    /\ got = <<>>

\* got[name] = the value the accessor gives, or the exception it raises
Get(name, value) ==
    /\ name \notin DOMAIN got
    /\ got' = got @@ (name :> value)
    /\ UNCHANGED <<selfvars, resvars, callvars, arr, flags, red, flags2, red2, occ_out>>

Get_nkpt == Get("nkpt", nkpt)
Get_nband == Get("nband", nband)
Get_occ_nospin == Get("get_occ_nospin", get_occ_nospin)

NextAccess == Get_nkpt \/ Get_nband \/ Get_occ_nospin
SpecAccess == InitAccess /\ [][NextAccess]_vars

Has(name) == name \in DOMAIN got

\* the files the accessors look at, in the order of their priority, and the
\* positions of those whose filename is set
Sources == <<eigr2d, fan, gkk>>
Named == {i \in 1..3 : Sources[i].fname}
FirstNamed == Sources[CHOOSE i \in Named : \A j \in Named : i <= j]

\* C11: nkpt, nband and get_occ_nospin each take their value from the first
\* of eigr2d, fan, gkk whose filename is set, and each raises the
\* configuration error when none is set; the three use the same file.
C11_SourcePriority ==
    /\ Has("nkpt") =>
          got["nkpt"] = IF Named = {} THEN Err("Exception") ELSE Ret(FirstNamed.nkpt)
    /\ Has("nband") =>
          got["nband"] = IF Named = {} THEN Err("Exception") ELSE Ret(FirstNamed.nband)
    /\ Has("get_occ_nospin") =>
          IF Named = {} THEN got["get_occ_nospin"] = Err("Exception")
          ELSE /\ IsArr(got["get_occ_nospin"])
               /\ got["get_occ_nospin"].shape = <<FirstNamed.nband>>
               /\ \A n \in 1..FirstNamed.nband :
                     got["get_occ_nospin"].data[<<n>>] \in
                        {FirstNamed.occ.data[<<1, 1, n>>],
                         CMul(CRat(1, 2), FirstNamed.occ.data[<<1, 1, n>>])}

\* the three accessors were called with fan and gkk set and eigr2d not set,
\* and all three gave what the fan file holds
C11_Witness ==
    /\ Has("nkpt") /\ Has("nband") /\ Has("get_occ_nospin")
    /\ ~eigr2d.fname /\ fan.fname /\ gkk.fname
    /\ got["nkpt"] = Ret(NKpt + 1) /\ got["nband"] = Ret(NBand + 1)
    /\ got["get_occ_nospin"].shape = <<NBand + 1>>

\* ------------------------------------------ test bench of find_fermi_level

FermiKpts == 2      \* number of k-points of the eigenvalue file at k+q

\* band-ordered eigenvalues, in quarters: the list -1, -1/2, 1/2, 1, 3/2, ...
\* with a gap above the second band (p = 1) and the list 0, 1, 2, ... (p = 2)
Levels(p, n) == IF p = 1 THEN (IF n <= 2 THEN 2 * (n - 3) ELSE 2 * (n - 2)) ELSE 4 * (n - 1)

\* EigFile at k+q with n bands: the k-points after the first hold the levels
\* of the first, all moved by shift quarters
LevelData(p, n, shift) ==
    [EIG |-> MkArr(<<1, FermiKpts, n>>, LAMBDA ix :
                CRat(Levels(p, ix[3]) + (IF ix[2] = 1 THEN 0 ELSE shift), 4))]

InitFermi ==
    /\ \E n \in 1..OccBands :
          /\ eigr2d \in {SourceFile(FermiKpts, v) : v \in [1..n -> {0, 1, 2}]}
          /\ eigq \in {LevelData(p, n, s) : p \in 1..2, s \in {-1, 0, 1}}
    /\ fan = Unread /\ gkk = Unread
    /\ ddb = None /\ eig0 = None
    /\ eigr2d0 = None /\ eigi2d = None /\ fan0 = None /\ gkk0 = None
    /\ wtq = None /\ smearing = None /\ temperatures = None
    /\ omegase = None /\ mu = None
    /\ NoResults
    /\ got = <<>>

Get_max_val == Get("get_max_val", get_max_val)
Get_min_cond == Get("get_min_cond", get_min_cond)
Get_fermi_level == Get("find_fermi_level", find_fermi_level)

NextFermi == Get_max_val \/ Get_min_cond \/ Get_fermi_level
SpecFermi == InitFermi /\ [][NextFermi]_vars

\* the band list find_fermi_level scans: the occupations get_occ_nospin gives
\* and the eigenvalues of k-point k
NBands == eigq.EIG.shape[3]
Occ0(n) == get_occ_nospin.data[<<n>>]
Level(k, n) == eigq.EIG.data[<<1, k, n>>]
AtLeastHalf(x) == 2 * x[1] >= x[3]
AtMostHalf(x) == 2 * x[1] <= x[3]
Midpoint(x, y) == CMul(CRat(1, 2), CAdd(x, y))

\* occupations in {0,1}, non-increasing with the band index, with at least
\* one occupied and one empty band
Gapped ==
    /\ \A n \in 1..NBands : Occ0(n) \in {CZero, COne}
    /\ \A n \in 1..(NBands - 1) : Occ0(n) = CZero => Occ0(n + 1) = CZero
    /\ Occ0(1) = COne /\ Occ0(NBands) = CZero

LastFilled == CHOOSE n \in 1..NBands : AtLeastHalf(Occ0(n)) /\ \A j \in 1..NBands : AtLeastHalf(Occ0(j)) => j <= n
FirstEmpty == CHOOSE n \in 1..NBands : AtMostHalf(Occ0(n)) /\ \A j \in 1..NBands : AtMostHalf(Occ0(j)) => n <= j

\* C12: for a gapped band list find_fermi_level returns the midpoint of the
\* eigenvalue of the last band with occupation >= 0.5 and the eigenvalue of
\* the first band with occupation <= 0.5, both of the first k-point; the
\* eigenvalues [-1,-0.5,0.5,1] with occupations [1,1,0,0] give 0.
C12_GappedMidpoint ==
    (Has("find_fermi_level") /\ Gapped) =>
        /\ got["find_fermi_level"] = Ret(Midpoint(Level(1, LastFilled), Level(1, FirstEmpty)))
        /\ ( /\ [n \in 1..NBands |-> Level(1, n)] = <<CInt(-1), CRat(-1, 2), CRat(1, 2), CInt(1)>>
             /\ [n \in 1..NBands |-> Occ0(n)] = <<COne, COne, CZero, CZero>> )
           => got["find_fermi_level"] = Ret(CZero)

\* the Fermi level of the eigenvalues [-1,-0.5,0.5,1] with the spin-doubled
\* occupations [2,2,0,0] has been found to be 0
C12_Witness ==
    /\ Has("find_fermi_level") /\ Gapped /\ NBands = 4
    /\ \A n \in 1..4 : eigr2d.occ.data[<<1, 1, n>>] = CInt(IF n <= 2 THEN 2 ELSE 0)
    /\ Level(1, 2) = CRat(-1, 2) /\ Level(1, 3) = CRat(1, 2)
    /\ got["find_fermi_level"] = Ret(CZero)

\* the largest and the smallest of a non-empty set of real numbers
Less(x, y) == x[1] * y[3] < y[1] * x[3]
Largest(S) == CHOOSE x \in S : \A y \in S : ~Less(x, y)
Smallest(S) == CHOOSE x \in S : \A y \in S : ~Less(y, x)

\* C13: for a gapped band list find_fermi_level returns the midpoint of the
\* largest occupied eigenvalue over all k-points and the smallest empty
\* eigenvalue over all k-points.
C13_Original ==
    (Has("find_fermi_level") /\ Gapped) =>
        got["find_fermi_level"] =
            Ret(Midpoint(Largest({Level(k, n) : k \in 1..FermiKpts,
                                                n \in {j \in 1..NBands : Occ0(j) = COne}}),
                         Smallest({Level(k, n) : k \in 1..FermiKpts,
                                                 n \in {j \in 1..NBands : Occ0(j) = CZero}})))

\* C20: find_fermi_level returns a value for every band list that is not
\* empty: the eigenvalue of the last band when no band has an occupation of
\* at most 0.5, the eigenvalue of the first band when the first band has an
\* occupation below 0.5.
C20_NonGappedEdges ==
    Has("find_fermi_level") =>
        /\ ~IsErr(got["find_fermi_level"])
        /\ (\A n \in 1..NBands : ~AtMostHalf(Occ0(n))) =>
              got["find_fermi_level"] = Ret(Level(1, NBands))
        /\ ~AtLeastHalf(Occ0(1)) => got["find_fermi_level"] = Ret(Level(1, 1))

\* the Fermi level of three bands that are all occupied has been found
C20_Witness ==
    /\ Has("find_fermi_level") /\ NBands = 3
    /\ \A n \in 1..NBands : Occ0(n) = COne
    /\ got["find_fermi_level"] = Ret(CInt(2))

\* ------------------------------------------ test bench of the engines

EngineFlags == [mode : BOOLEAN, temperature : BOOLEAN, omega : BOOLEAN, dynamical : BOOLEAN]

\* got["get_fan_ddw"] = the flags of the call and (fan, ddw) or the exception
Get_fan_ddw ==
    \E f \in EngineFlags :
        Get("get_fan_ddw",
            [flags |-> f, out |-> get_fan_ddw(f.mode, f.temperature, f.omega, f.dynamical)])

Get_fan_ddw_gkk2_active == Get("get_fan_ddw_gkk2_active", get_fan_ddw_gkk2_active)

NextEngine == Get_fan_ddw \/ Get_fan_ddw_gkk2_active
SpecEngine == Init /\ [][NextEngine]_vars

\* C16: the Fan and Debye-Waller terms get_fan_ddw returns are the sums of
\* the Sternheimer terms for the caller's mode, temperature and omega flags
\* and of the active-space terms for the caller's mode, temperature, omega
\* and dynamical flags.
C16_Original ==
    (Has("get_fan_ddw") /\ ~IsErr(got["get_fan_ddw"].out)) =>
        LET sums(out, s, a) ==
                /\ ~IsErr(s) /\ ~IsErr(a)
                /\ out.fan = ArrAdd(a.fan, s.fan)
                /\ out.ddw = ArrAdd(a.ddw, s.ddw)
            passes(f) ==
                sums(got["get_fan_ddw"].out,
                     get_fan_ddw_sternheimer(f.mode, f.omega, f.temperature),
                     get_fan_ddw_active(f.mode, f.omega, f.temperature, f.dynamical))
        IN  passes(got["get_fan_ddw"].flags)

\* C17: on a successful call of get_fan_ddw_gkk2_active ddw_num is the
\* symmetrized contraction of the q=0 coupling, fan_num the contraction of
\* the coupling, symmetrized exactly when is_gamma; the couplings are those
\* of the gkk pair when both gkk filenames are set and of the fan pair
\* otherwise.  Symmetrized, the entries between degenerate bands are zero.
C17_Symmetrization ==
    (Has("get_fan_ddw_gkk2_active") /\ ~IsErr(got["get_fan_ddw_gkk2_active"])) =>
        LET holds(r, fan_num, ddw_num) ==
                /\ r.ddw = symmetrize_fan_degen(ddw_num)
                /\ r.fan = IF ddb.is_gamma THEN symmetrize_fan_degen(fan_num) ELSE fan_num
                /\ \A ix \in DOMAIN r.ddw.data :
                      E0(ix[1], ix[2]) = E0(ix[1], ix[3]) =>
                          /\ r.ddw.data[ix] = CZero
                          /\ r.fan.data[ix] = IF ddb.is_gamma THEN CZero ELSE fan_num.data[ix]
            from(r, g, g0) ==
                holds(r, gkk2_num(g, ddb.displ_red_FAN2), gkk2_num(g0, ddb.displ_red_DDW2))
        IN  IF gkk.fname /\ gkk0.fname
            THEN from(got["get_fan_ddw_gkk2_active"], gkk.gkk_squared, gkk0.gkk_squared)
            ELSE from(got["get_fan_ddw_gkk2_active"], fan.FAN, fan0.FAN)

\* the numerators were computed at Gamma from the gkk pair, with degenerate
\* bands whose coupling the symmetrization has set to zero
C17_Witness ==
    /\ Has("get_fan_ddw_gkk2_active") /\ ~IsErr(got["get_fan_ddw_gkk2_active"])
    /\ ddb.is_gamma /\ gkk.fname /\ gkk0.fname /\ fan.fname /\ fan0.fname
    /\ E0(1, 1) = E0(1, 2)
    /\ got["get_fan_ddw_gkk2_active"].fan.data[<<1, 1, 2, 1>>] = CZero
    /\ gkk2_num(gkk.gkk_squared, ddb.displ_red_FAN2).data[<<1, 1, 2, 1>>] # CZero
    /\ gkk2_num(gkk.gkk_squared, ddb.displ_red_FAN2)
          # gkk2_num(fan.FAN, ddb.displ_red_FAN2)

\* ------------------------------- properties of failed and averaged calls

\* C18: a call of an aggregator that raises the configuration error of the
\* missing active-space data leaves zpr, zpb, tdr, tdb and sigma as they were
\* before the call.
C18_Original ==
    [][(/\ call'.name \in NeedActive
        /\ call'.err = "Exception"
        /\ NoActivePair /\ eigr2d.fname)
       => resvars' = resvars]_vars

\* the axis of the k-points in the tensor a method returns; the band axis
\* is the next one
KptAxis(name) == IF name = "get_zpr_static_modes" THEN 2 ELSE 1

\* the entries of bands that are degenerate at a k-point are equal
BandAveraged(a, kx) ==
    \A ix \in DOMAIN a.data : \A m \in 1..a.shape[kx + 1] :
        E0(ix[kx], ix[kx + 1]) = E0(ix[kx], m) =>
            a.data[ix] = a.data[[ix EXCEPT ![kx + 1] = m]]

\* C19: every call that returns has called make_average once, as its last
\* step before the axes are permuted; the tensor returned is averaged over
\* the degenerate bands along its band axis, which was the last axis of the
\* tensor averaged.
C19_AverageOnce ==
    (call # None /\ call.ok) =>
        /\ Cardinality({i \in 1..Len(call.trace) : call.trace[i] = "make_average"}) = 1
        /\ call.trace[Len(call.trace)] = "make_average"
        /\ BandAveraged(call.ret, KptAxis(call.name))
        /\ BandAveraged(Stored(FieldName(call.name)), KptAxis(call.name))

\* a temperature-dependent renormalization was returned for two degenerate
\* bands whose Sternheimer terms differ
C19_Witness ==
    /\ ReturnedFrom({"get_tdr_static_nosplit"})
    /\ E0(1, 1) = E0(1, 2) /\ ntemp = MaxNTemp
    /\ eigr2d.EIG2D.data[<<1, 1, 1, 1, 1, 1>>] # eigr2d.EIG2D.data[<<1, 2, 1, 1, 1, 1>>]
    /\ call.ret.data[<<1, 1, 2>>] = call.ret.data[<<1, 2, 2>>]
    /\ call.ret.data[<<1, 1, 2>>] # CZero

====
